---- MODULE Spec2Model ----
(***************************************************************************)
(* Real-time chat of connect-us (src/src/services/chatService.ts) as a     *)
(* state machine over the two Firestore collections it writes: chatRooms   *)
(* and messages.  Every await of an async function is one step: the store  *)
(* answers (or fails) and the function's continuation runs up to the next  *)
(* await.  Strings are sequences of one-character strings, so trim() and   *)
(* the truthiness of "" are computed, not assumed.                         *)
(***************************************************************************)
EXTENDS Integers, Sequences, FiniteSets, TLC

\* ------------------------------------------------------------------ bounds

\* getOrCreateChatRoom calls made in one behaviour (one slot per call)
MaxGoc == 2
\* sendMessage calls made in one behaviour (one slot per call)
MaxSend == 2
\* the server clock runs from 0 to MaxTime
MaxTime == 1
\* getAllUsers calls made in one behaviour (one slot per call)
MaxGau == 1
\* enrichment passes of subscribeToUserChats running at the same time
MaxPasses == 2

GocCalls == 1..MaxGoc
GauCalls == 1..MaxGau
SendCalls == 1..MaxSend
\* auto-generated document ids: addDoc picks any id not in use
RoomIds == 1..MaxGoc
MsgIds == 1..MaxSend
\* a room id that names no document: sendMessage takes any string
AbsentRoomId == MaxGoc + 1

Users == {"A", "B"}
\* the order of the user ids as document ids
UserOrder == <<"A", "B">>
\* the id the empty string stands for: no user
NoUser == ""

\* ----------------------------------------------------------------- strings

EmptyStr == <<>>
Blank == <<" ", " ">>
NameAl == <<"A", "l">>
PaddedBo == <<" ", "B", "o">>
MailAx == <<"a", "@", "x">>
PhotoP == <<"p">>
TextHi == <<"h", "i">>
TextYo == <<"y", "o">>
PaddedYo == <<" ", "y", "o", " ">>
NameBo == <<"B", "o">>
UnknownUser == <<"U", "n", "k", "n", "o", "w", "n", " ", "U", "s", "e", "r">>

\* the characters String.prototype.trim removes
IsSpace(ch) == ch \in {" ", "\t", "\n"}

RECURSIVE TrimLeft(_)
TrimLeft(s) ==
  IF s # <<>> /\ IsSpace(Head(s)) THEN TrimLeft(Tail(s)) ELSE s

RECURSIVE TrimRight(_)
TrimRight(s) ==
  IF s # <<>> /\ IsSpace(s[Len(s)]) THEN TrimRight(SubSeq(s, 1, Len(s) - 1)) ELSE s

Trim(s) == TrimRight(TrimLeft(s))

\* a JS object's optional string field is truthy: present and not ""
Truthy(obj, f) == f \in DOMAIN obj /\ obj[f] # EmptyStr

\* obj.f || ""
OrEmpty(obj, f) == IF Truthy(obj, f) THEN obj[f] ELSE EmptyStr

\* the profiles a caller passes: objects whose fields may be missing
Profiles ==
  { [displayName |-> NameAl, email |-> MailAx, photoURL |-> PhotoP],
    [displayName |-> Blank, email |-> MailAx],
    [displayName |-> PaddedBo, email |-> EmptyStr],
    [displayName |-> EmptyStr, email |-> EmptyStr, photoURL |-> EmptyStr],
    [photoURL |-> PhotoP] }

\* a profile as ChatListScreen.handleStartChat builds it: every field a string
ScreenProfiles == { [displayName |-> NameAl, email |-> MailAx, photoURL |-> PhotoP] }

\* the profiles ChatListScreen.handleStartChat and the profile screen build
\* when the list of chats is watched: the second is the profile of a user
\* who has neither a display name nor an email
ListProfiles ==
  { [displayName |-> NameAl, email |-> MailAx, photoURL |-> PhotoP],
    [displayName |-> UnknownUser, email |-> EmptyStr, photoURL |-> EmptyStr] }

\* the users collection: A has a full profile, B one without a usable name
UserDocs ==
  [u \in Users |->
     IF u = "A" THEN [displayName |-> NameAl, email |-> MailAx, photoURL |-> PhotoP]
                ELSE [displayName |-> Blank, photoURL |-> PhotoP]]

\* the posts collection: one post, written by B
PostDocs == <<[userId |-> "B", userName |-> NameBo, createdAt |-> 0]>>

\* null, and a server timestamp
Null == <<>>
Stamp(t) == <<t>>

\* ------------------------------------------------------------------- state

VARIABLES
  rooms,      \* chatRooms collection: document id -> document
  messages,   \* messages collection: document id -> document
  now,        \* the server clock behind serverTimestamp()
  goc,        \* getOrCreateChatRoom calls: slot -> position and locals
  snd,        \* sendMessage calls: slot -> position and locals
  updLog,     \* history: the sendMessage calls whose room update was applied, in order
  faults,     \* history: the store operations that were rejected, as <<function, slot, operation>>
  sndAtCall,  \* history: what the store held when each sendMessage call was made
  users,      \* users collection: user id -> profile document (read only)
  posts,      \* posts collection: document id -> document (read only)
  gau,        \* getAllUsers calls: slot -> position and result
  msgSub,     \* the subscribeToMessages listener and what its callback received
  chatSub,    \* the subscribeToUserChats listener and what its callback received
  passes      \* enrichment passes of subscribeToUserChats still running, oldest
              \* first: the snapshot's number, its entries, each lookup's position
              \* (todo) and, as history, the lookups that have settled (did)

\* what the read operations change
readVars == <<users, posts, gau, msgSub, chatSub, passes>>

vars == <<rooms, messages, now, goc, snd, updLog, faults, sndAtCall, readVars>>

IdleGoc == [pc |-> "idle"]
IdleSnd == [pc |-> "idle"]
IdleGau == [pc |-> "idle"]
NoSub == [pc |-> "none"]

Init ==
  /\ rooms = <<>>
  /\ messages = <<>>
  /\ now = 0
  /\ goc = [c \in GocCalls |-> IdleGoc]
  /\ snd = [c \in SendCalls |-> IdleSnd]
  /\ updLog = <<>>
  /\ faults = {}
  /\ sndAtCall = [c \in SendCalls |-> [inFlight |-> {}, stored |-> {}]]
  /\ users = UserDocs
  /\ posts = PostDocs
  /\ gau = [c \in GauCalls |-> IdleGau]
  /\ msgSub = NoSub
  /\ chatSub = NoSub
  /\ passes = <<>>

\* the server clock advances
Tick ==
  /\ now < MaxTime
  /\ now' = now + 1
  /\ UNCHANGED <<rooms, messages, goc, snd, updLog, faults, sndAtCall, readVars>>

\* ------------------------------------------------------ getOrCreateChatRoom

\* (mutant) the display name is not trimmed before it is tested
getUserDisplayNameNoTrim(userData) ==
  IF Truthy(userData, "displayName")
  THEN userData.displayName
  ELSE IF Truthy(userData, "email")
       THEN userData.email
       ELSE UnknownUser

getUserDisplayName(userData) ==
  IF Truthy(userData, "displayName") /\ Trim(userData.displayName) # EmptyStr
  THEN userData.displayName
  ELSE IF Truthy(userData, "email")
       THEN userData.email
       ELSE UnknownUser

ParticipantDetail(userData) ==
  [displayName |-> getUserDisplayName(userData),
   email |-> OrEmpty(userData, "email"),
   photoURL |-> OrEmpty(userData, "photoURL")]

\* the object literal of lines 110-130; with userId1 = userId2 the second
\* computed key overwrites the first
NewChatRoom(userId1, userId2, user1Data, user2Data, t) ==
  [participants |-> <<userId1, userId2>>,
   createdAt |-> t,
   lastMessage |-> EmptyStr,
   lastMessageTime |-> Null,
   participantDetails |->
     [u \in {userId1, userId2} |->
        IF u = userId2 THEN ParticipantDetail(user2Data)
                       ELSE ParticipantDetail(user1Data)]]

Includes(seq, x) == \E i \in DOMAIN seq : seq[i] = x

\* ids of a set of documents in the order a query returns them (by document id)
RECURSIVE SortedIds(_)
SortedIds(S) ==
  IF S = {} THEN <<>>
  ELSE LET m == CHOOSE x \in S : \A y \in S : x <= y
       IN <<m>> \o SortedIds(S \ {m})

\* getDocs(query(chatRoomsRef, where("participants", "array-contains", userId)))
QueryRooms(userId) ==
  LET ids == SortedIds({id \in DOMAIN rooms : Includes(rooms[id].participants, userId)})
  IN [i \in DOMAIN ids |-> [id |-> ids[i], data |-> rooms[ids[i]]]]

\* (mutant) only the second participant is compared with userId2
FindExistingSecondOnly(docs, userId2) ==
  IF \E i \in DOMAIN docs : docs[i].data.participants[2] = userId2
  THEN CHOOSE i \in DOMAIN docs :
         /\ docs[i].data.participants[2] = userId2
         /\ \A j \in 1..(i - 1) : docs[j].data.participants[2] # userId2
  ELSE 0

\* querySnapshot.docs.find(doc => doc.data().participants.includes(userId2)):
\* the index of the first such doc, 0 for undefined
FindExisting(docs, userId2) ==
  IF \E i \in DOMAIN docs : Includes(docs[i].data.participants, userId2)
  THEN CHOOSE i \in DOMAIN docs :
         /\ Includes(docs[i].data.participants, userId2)
         /\ \A j \in 1..(i - 1) : ~Includes(docs[j].data.participants, userId2)
  ELSE 0

\* (mutant) a call that finds the room refreshes its participantDetails
\* from the profiles it was given
GocCallRefreshes(c, userId1, userId2, user1Data, user2Data) ==
  /\ goc[c].pc = "idle"
  /\ \A d \in GocCalls : d < c => goc[d].pc # "idle"
  /\ LET docs == QueryRooms(userId1)
         i == FindExisting(docs, userId2)
     IN /\ goc' = [goc EXCEPT ![c] =
             IF i # 0
             THEN [pc |-> "resolved", userId1 |-> userId1, userId2 |-> userId2,
                   result |-> docs[i].id, created |-> FALSE]
             ELSE [pc |-> "addDoc", userId1 |-> userId1, userId2 |-> userId2,
                   user1Data |-> user1Data, user2Data |-> user2Data]]
        /\ rooms' = IF i # 0
                    THEN [rooms EXCEPT ![docs[i].id].participantDetails =
                            NewChatRoom(userId1, userId2, user1Data, user2Data,
                                        now).participantDetails]
                    ELSE rooms
  /\ UNCHANGED <<messages, now, snd, updLog, faults, sndAtCall, readVars>>

\* the call is made and getDocs resolves: find runs, and an existing room is
\* returned or addDoc is awaited
GocCall(c, userId1, userId2, user1Data, user2Data) ==
  /\ goc[c].pc = "idle"
  /\ \A d \in GocCalls : d < c => goc[d].pc # "idle"
  /\ LET docs == QueryRooms(userId1)
         i == FindExisting(docs, userId2)
     IN goc' = [goc EXCEPT ![c] =
          IF i # 0
          THEN [pc |-> "resolved", userId1 |-> userId1, userId2 |-> userId2,
                result |-> docs[i].id, created |-> FALSE]
          ELSE [pc |-> "addDoc", userId1 |-> userId1, userId2 |-> userId2,
                user1Data |-> user1Data, user2Data |-> user2Data]]
  /\ UNCHANGED <<rooms, messages, now, snd, updLog, faults, sndAtCall, readVars>>

\* the call is made and getDocs rejects; nothing catches it
GocCallFails(c, userId1, userId2) ==
  /\ goc[c].pc = "idle"
  /\ \A d \in GocCalls : d < c => goc[d].pc # "idle"
  /\ goc' = [goc EXCEPT ![c] =
       [pc |-> "rejected", userId1 |-> userId1, userId2 |-> userId2,
        error |-> "getDocs"]]
  /\ faults' = faults \cup {<<"getOrCreateChatRoom", c, "getDocs">>}
  /\ UNCHANGED <<rooms, messages, now, snd, updLog, sndAtCall, readVars>>

\* addDoc resolves: the store has created the room under a fresh id
GocAddDoc(c, id) ==
  /\ goc[c].pc = "addDoc"
  /\ id \in RoomIds \ DOMAIN rooms
  /\ rooms' = (id :> NewChatRoom(goc[c].userId1, goc[c].userId2,
                                 goc[c].user1Data, goc[c].user2Data, now)) @@ rooms
  /\ goc' = [goc EXCEPT ![c] =
       [pc |-> "resolved", userId1 |-> goc[c].userId1,
        userId2 |-> goc[c].userId2, result |-> id, created |-> TRUE]]
  /\ UNCHANGED <<messages, now, snd, updLog, faults, sndAtCall, readVars>>

\* (mutant) a rejected addDoc is caught and the write is tried again
GocAddDocFailsRetries(c) ==
  /\ goc[c].pc = "addDoc"
  /\ <<"getOrCreateChatRoom", c, "addDoc">> \notin faults
  /\ faults' = faults \cup {<<"getOrCreateChatRoom", c, "addDoc">>}
  /\ UNCHANGED <<rooms, messages, now, goc, snd, updLog, sndAtCall, readVars>>

\* addDoc rejects; nothing catches it
GocAddDocFails(c) ==
  /\ goc[c].pc = "addDoc"
  /\ goc' = [goc EXCEPT ![c] =
       [pc |-> "rejected", userId1 |-> goc[c].userId1,
        userId2 |-> goc[c].userId2, error |-> "addDoc"]]
  /\ faults' = faults \cup {<<"getOrCreateChatRoom", c, "addDoc">>}
  /\ UNCHANGED <<rooms, messages, now, snd, updLog, sndAtCall, readVars>>

\* -------------------------------------------------------------- sendMessage

\* the roomIds a caller can pass: a room's id, or a string that names none
RoomIdArgs == DOMAIN rooms \cup {AbsentRoomId}

MessageData(chatRoomId, message, t) ==
  [text |-> message.text,
   createdAt |-> t,
   user |-> message.user,
   chatRoomId |-> chatRoomId]

\* (mutant) the catch logs the error and does not throw it again
SendCatchSwallows(call, error) == [pc |-> "resolved"] @@ call

\* the catch of lines 174-178: the error is logged and thrown again
SendCatch(call, error) == [pc |-> "rejected", error |-> error] @@ call

\* history: the calls to chatRoomId in flight, and the room's stored messages
AtCall(c, chatRoomId) ==
  [inFlight |-> {d \in SendCalls \ {c} :
                   snd[d].pc = "updateDoc" /\ snd[d].chatRoomId = chatRoomId},
   stored |-> {id \in DOMAIN messages : messages[id].chatRoomId = chatRoomId}]

\* (mutant) the message is written under an id that may be in use
SendCallReusesId(c, chatRoomId, message, id) ==
  /\ snd[c].pc = "idle"
  /\ \A d \in SendCalls : d < c => snd[d].pc # "idle"
  /\ id \in MsgIds
  /\ messages' = (id :> MessageData(chatRoomId, message, now)) @@ messages
  /\ snd' = [snd EXCEPT ![c] =
       [pc |-> "updateDoc", chatRoomId |-> chatRoomId, message |-> message]]
  /\ sndAtCall' = [sndAtCall EXCEPT ![c] = AtCall(c, chatRoomId)]
  /\ UNCHANGED <<rooms, now, goc, updLog, faults, readVars>>

\* the call is made and addDoc resolves: the message is stored under a fresh
\* id; updateDoc is awaited
SendCall(c, chatRoomId, message, id) ==
  /\ snd[c].pc = "idle"
  /\ \A d \in SendCalls : d < c => snd[d].pc # "idle"
  /\ id \in MsgIds \ DOMAIN messages
  /\ messages' = (id :> MessageData(chatRoomId, message, now)) @@ messages
  /\ snd' = [snd EXCEPT ![c] =
       [pc |-> "updateDoc", chatRoomId |-> chatRoomId, message |-> message]]
  /\ sndAtCall' = [sndAtCall EXCEPT ![c] = AtCall(c, chatRoomId)]
  /\ UNCHANGED <<rooms, now, goc, updLog, faults, readVars>>

\* (mutant) a rejected addDoc is not awaited: the call goes on to updateDoc
SendCallFailsGoesOn(c, chatRoomId, message) ==
  /\ snd[c].pc = "idle"
  /\ \A d \in SendCalls : d < c => snd[d].pc # "idle"
  /\ snd' = [snd EXCEPT ![c] =
       [pc |-> "updateDoc", chatRoomId |-> chatRoomId, message |-> message]]
  /\ faults' = faults \cup {<<"sendMessage", c, "addDoc">>}
  /\ sndAtCall' = [sndAtCall EXCEPT ![c] = AtCall(c, chatRoomId)]
  /\ UNCHANGED <<rooms, messages, now, goc, updLog, readVars>>

\* the call is made and addDoc rejects: nothing is stored, and the catch runs
SendCallFails(c, chatRoomId, message) ==
  /\ snd[c].pc = "idle"
  /\ \A d \in SendCalls : d < c => snd[d].pc # "idle"
  /\ snd' = [snd EXCEPT ![c] =
       SendCatch([pc |-> "addDoc", chatRoomId |-> chatRoomId, message |-> message],
                 "addDoc")]
  /\ faults' = faults \cup {<<"sendMessage", c, "addDoc">>}
  /\ sndAtCall' = [sndAtCall EXCEPT ![c] = AtCall(c, chatRoomId)]
  /\ UNCHANGED <<rooms, messages, now, goc, updLog, readVars>>

\* (mutant) the update stamps the room and leaves its lastMessage
SendUpdateDocTimeOnly(c) ==
  /\ snd[c].pc = "updateDoc"
  /\ snd[c].chatRoomId \in DOMAIN rooms
  /\ rooms' = [rooms EXCEPT ![snd[c].chatRoomId] =
       [@ EXCEPT !.lastMessageTime = Stamp(now)]]
  /\ snd' = [snd EXCEPT ![c] = [snd[c] EXCEPT !.pc = "resolved"]]
  /\ updLog' = Append(updLog, c)
  /\ UNCHANGED <<messages, now, goc, faults, sndAtCall, readVars>>

\* (mutant) the preview is written only when the room has none: the first
\* write wins
SendUpdateDocKeepsFirst(c) ==
  /\ snd[c].pc = "updateDoc"
  /\ snd[c].chatRoomId \in DOMAIN rooms
  /\ rooms' = [rooms EXCEPT ![snd[c].chatRoomId] =
       IF @.lastMessageTime = Null
       THEN [@ EXCEPT !.lastMessage = snd[c].message.text,
                      !.lastMessageTime = Stamp(now)]
       ELSE @]
  /\ snd' = [snd EXCEPT ![c] = [snd[c] EXCEPT !.pc = "resolved"]]
  /\ updLog' = Append(updLog, c)
  /\ UNCHANGED <<messages, now, goc, faults, sndAtCall, readVars>>

\* updateDoc resolves: the room's preview is overwritten
SendUpdateDoc(c) ==
  /\ snd[c].pc = "updateDoc"
  /\ snd[c].chatRoomId \in DOMAIN rooms
  /\ rooms' = [rooms EXCEPT ![snd[c].chatRoomId] =
       [@ EXCEPT !.lastMessage = snd[c].message.text,
                 !.lastMessageTime = Stamp(now)]]
  /\ snd' = [snd EXCEPT ![c] = [snd[c] EXCEPT !.pc = "resolved"]]
  /\ updLog' = Append(updLog, c)
  /\ UNCHANGED <<messages, now, goc, faults, sndAtCall, readVars>>

\* updateDoc rejects (always, when the room document does not exist): the
\* catch runs
SendUpdateDocFails(c) ==
  /\ snd[c].pc = "updateDoc"
  /\ snd' = [snd EXCEPT ![c] = SendCatch(snd[c], "updateDoc")]
  /\ faults' = faults \cup {<<"sendMessage", c, "updateDoc">>}
  /\ UNCHANGED <<rooms, messages, now, goc, updLog, sndAtCall, readVars>>

\* ---------------------------------------------------------------- getAllUsers

\* obj.f when it is defined, as a one-field object; {} when it is undefined
Field(obj, f) == IF f \in DOMAIN obj THEN [x \in {f} |-> obj[f]] ELSE <<>>

\* displayName && displayName.trim() !== "" ? displayName : undefined
CleanDisplayName(data) ==
  IF Truthy(data, "displayName") /\ Trim(data.displayName) # EmptyStr
  THEN [displayName |-> data.displayName]
  ELSE <<>>

\* (mutant) the stored displayName is passed on as it is
UserStubKeepsBlank(uid, data) ==
  [uid |-> uid] @@ Field(data, "displayName") @@ Field(data, "email")
    @@ Field(data, "photoURL")

\* the object the map callback returns; an undefined field is an absent one
UserStub(uid, data) ==
  [uid |-> uid] @@ CleanDisplayName(data) @@ Field(data, "email")
    @@ Field(data, "photoURL")

\* getDocs(usersRef): the documents in document-id order
UsersQuery == SelectSeq(UserOrder, LAMBDA u : u \in DOMAIN users)

\* querySnapshot.docs.map(...).filter(user => user.uid !== currentUserId)
AllUsersExcept(currentUserId) ==
  LET docs == UsersQuery
      stubs == [i \in DOMAIN docs |-> UserStub(docs[i], users[docs[i]])]
  IN SelectSeq(stubs, LAMBDA s : s.uid # currentUserId)

\* the call is made and getDocs resolves
GetAllUsers(c, currentUserId) ==
  /\ gau[c].pc = "idle"
  /\ \A d \in 1..(c - 1) : gau[d].pc # "idle"
  /\ gau' = [gau EXCEPT ![c] = [pc |-> "resolved",
                                currentUserId |-> currentUserId,
                                result |-> AllUsersExcept(currentUserId)]]
  /\ UNCHANGED <<rooms, messages, now, goc, snd, updLog, faults, sndAtCall,
                 users, posts, msgSub, chatSub, passes>>

\* the call is made and getDocs rejects: nothing catches it
GetAllUsersFails(c, currentUserId) ==
  /\ gau[c].pc = "idle"
  /\ \A d \in 1..(c - 1) : gau[d].pc # "idle"
  /\ gau' = [gau EXCEPT ![c] = [pc |-> "rejected",
                                currentUserId |-> currentUserId,
                                error |-> "getDocs"]]
  /\ faults' = faults \cup {<<"getAllUsers", c, "getDocs">>}
  /\ UNCHANGED <<rooms, messages, now, goc, snd, updLog, sndAtCall,
                 users, posts, msgSub, chatSub, passes>>

\* -------------------------------------------------------- subscribeToMessages

\* query(messagesRef, where("chatRoomId", "==", chatRoomId)): the documents of
\* a snapshot, in document-id order
MessagesQuery(chatRoomId) ==
  LET ids == SortedIds({id \in DOMAIN messages :
                          messages[id].chatRoomId = chatRoomId})
  IN [i \in DOMAIN ids |-> [id |-> ids[i], data |-> messages[ids[i]]]]

\* the Message built from a document; createdAt is the Date's getTime():
\* every stored message carries the timestamp the server gave it, so
\* data.createdAt?.toDate() is a Date and the || new Date() is not taken
ToMessage(doc) ==
  [_id |-> doc.id,
   text |-> doc.data.text,
   createdAt |-> doc.data.createdAt,
   user |-> doc.data.user,
   chatRoomId |-> doc.data.chatRoomId]

\* (mutant) the comparator is aTime - bTime: oldest first
InsertMessageOldestFirst(sorted, m) ==
  LET behind == {j \in DOMAIN sorted : sorted[j].createdAt - m.createdAt > 0}
      k == IF behind = {} THEN Len(sorted) + 1
           ELSE CHOOSE j \in behind : \A i \in behind : j <= i
  IN SubSeq(sorted, 1, k - 1) \o <<m>> \o SubSeq(sorted, k, Len(sorted))

\* Array.prototype.sort is stable: m goes after every element that the
\* comparator (bTime - aTime) does not put behind it
InsertMessage(sorted, m) ==
  LET behind == {j \in DOMAIN sorted : m.createdAt - sorted[j].createdAt > 0}
      k == IF behind = {} THEN Len(sorted) + 1
           ELSE CHOOSE j \in behind : \A i \in behind : j <= i
  IN SubSeq(sorted, 1, k - 1) \o <<m>> \o SubSeq(sorted, k, Len(sorted))

RECURSIVE SortMessages(_)
SortMessages(ms) ==
  IF ms = <<>> THEN <<>>
  ELSE InsertMessage(SortMessages(SubSeq(ms, 1, Len(ms) - 1)), ms[Len(ms)])

\* subscribeToMessages(chatRoomId, callback): onSnapshot registers the listener
SubscribeToMessages(chatRoomId) ==
  /\ msgSub.pc = "none"
  /\ msgSub' = [pc |-> "listening", chatRoomId |-> chatRoomId, snapshots |-> 0,
                seen |-> <<>>, calls |-> 0, delivered |-> <<>>]
  /\ UNCHANGED <<rooms, messages, now, goc, snd, updLog, faults, sndAtCall,
                 users, posts, gau, chatSub, passes>>

\* (mutant) a removed listener still receives snapshots
MessagesSnapshotAfterClose ==
  /\ msgSub.pc \in {"listening", "closed"}
  /\ LET docs == MessagesQuery(msgSub.chatRoomId)
     IN /\ msgSub.snapshots = 0 \/ docs # msgSub.seen
        /\ msgSub' = [msgSub EXCEPT
                        !.snapshots = @ + 1,
                        !.seen = docs,
                        !.calls = @ + 1,
                        !.delivered =
                          SortMessages([i \in DOMAIN docs |-> ToMessage(docs[i])])]
  /\ UNCHANGED <<rooms, messages, now, goc, snd, updLog, faults, sndAtCall,
                 users, posts, gau, chatSub, passes>>

\* (mutant) the callback receives only the documents that are new since the
\* last snapshot
MessagesSnapshotDiff ==
  /\ msgSub.pc = "listening"
  /\ LET docs == MessagesQuery(msgSub.chatRoomId)
         new == SelectSeq(docs, LAMBDA doc : ~Includes(msgSub.seen, doc))
     IN /\ msgSub.snapshots = 0 \/ docs # msgSub.seen
        /\ msgSub' = [msgSub EXCEPT
                        !.snapshots = @ + 1,
                        !.seen = docs,
                        !.calls = @ + 1,
                        !.delivered =
                          SortMessages([i \in DOMAIN new |-> ToMessage(new[i])])]
  /\ UNCHANGED <<rooms, messages, now, goc, snd, updLog, faults, sndAtCall,
                 users, posts, gau, chatSub, passes>>

\* the listener receives a snapshot (the first one, or one after the result
\* of the query changed): map, sort, callback
MessagesSnapshot ==
  /\ msgSub.pc = "listening"
  /\ LET docs == MessagesQuery(msgSub.chatRoomId)
     IN /\ msgSub.snapshots = 0 \/ docs # msgSub.seen
        /\ msgSub' = [msgSub EXCEPT
                        !.snapshots = @ + 1,
                        !.seen = docs,
                        !.calls = @ + 1,
                        !.delivered =
                          SortMessages([i \in DOMAIN docs |-> ToMessage(docs[i])])]
  /\ UNCHANGED <<rooms, messages, now, goc, snd, updLog, faults, sndAtCall,
                 users, posts, gau, chatSub, passes>>

\* the function subscribeToMessages returned is called: the listener is
\* removed; calling it again changes nothing
UnsubscribeFromMessages ==
  /\ msgSub.pc \in {"listening", "closed"}
  /\ msgSub' = [msgSub EXCEPT !.pc = "closed"]
  /\ UNCHANGED <<rooms, messages, now, goc, snd, updLog, faults, sndAtCall,
                 users, posts, gau, chatSub, passes>>

\* ------------------------------------------------------- subscribeToUserChats

\* (mutant) the first participant is taken, whoever is looking
OtherUserIdFirst(participants, userId) == participants[1]

\* data.participants.find(id => id !== userId) || ""
OtherUserId(participants, userId) ==
  IF \E i \in DOMAIN participants : participants[i] # userId
  THEN participants[CHOOSE i \in DOMAIN participants :
                      /\ participants[i] # userId
                      /\ \A j \in 1..(i - 1) : participants[j] = userId]
  ELSE NoUser

\* the UserChat the map callback builds from a room document; an undefined
\* otherUserPhoto or lastMessageTime is an absent field, and lastMessageTime
\* is the Date's getTime()
ToUserChat(doc, userId) ==
  LET otherUserId == OtherUserId(doc.data.participants, userId)
      otherUserDetails ==
        IF otherUserId \in DOMAIN doc.data.participantDetails
        THEN doc.data.participantDetails[otherUserId]
        ELSE <<>>
  IN [chatRoomId |-> doc.id,
      otherUserId |-> otherUserId,
      otherUserName |-> getUserDisplayName(otherUserDetails),
      lastMessage |-> OrEmpty(doc.data, "lastMessage")]
     @@ (IF "photoURL" \in DOMAIN otherUserDetails
         THEN [otherUserPhoto |-> otherUserDetails.photoURL] ELSE <<>>)
     @@ (IF doc.data.lastMessageTime # Null
         THEN [lastMessageTime |-> doc.data.lastMessageTime[1]] ELSE <<>>)

\* (mutant) the filter does not test otherUserId
UnknownsAnyPlaceholder(chats) ==
  {idx \in DOMAIN chats : chats[idx].otherUserName = UnknownUser}

\* the indexes of the entries that need enrichment
Unknowns(chats) ==
  {idx \in DOMAIN chats :
     chats[idx].otherUserName = UnknownUser /\ chats[idx].otherUserId # NoUser}

HasTime(chat) == "lastMessageTime" \in DOMAIN chat

\* (mutant) an entry without a lastMessageTime is put in front of one with
CompareChatsNoTimeFirst(a, b) ==
  IF ~HasTime(a) /\ ~HasTime(b) THEN 0
  ELSE IF ~HasTime(a) THEN -1
  ELSE IF ~HasTime(b) THEN 1
  ELSE b.lastMessageTime - a.lastMessageTime

\* the comparator of sortChatsByTime; a Date is truthy whatever its time
CompareChats(a, b) ==
  IF ~HasTime(a) /\ ~HasTime(b) THEN 0
  ELSE IF ~HasTime(a) THEN 1
  ELSE IF ~HasTime(b) THEN -1
  ELSE b.lastMessageTime - a.lastMessageTime

\* Array.prototype.sort is stable: chat goes in front of the first element
\* the comparator puts behind it
InsertChat(sorted, chat) ==
  LET behind == {j \in DOMAIN sorted : CompareChats(sorted[j], chat) > 0}
      k == IF behind = {} THEN Len(sorted) + 1
           ELSE CHOOSE j \in behind : \A i \in behind : j <= i
  IN SubSeq(sorted, 1, k - 1) \o <<chat>> \o SubSeq(sorted, k, Len(sorted))

RECURSIVE sortChatsByTime(_)
sortChatsByTime(chats) ==
  IF chats = <<>> THEN <<>>
  ELSE InsertChat(sortChatsByTime(SubSeq(chats, 1, Len(chats) - 1)),
                  chats[Len(chats)])

\* subscribeToUserChats(userId, callback): onSnapshot registers the listener
SubscribeToUserChats(userId) ==
  /\ chatSub.pc = "none"
  /\ chatSub' = [pc |-> "listening", userId |-> userId, snapshots |-> 0,
                 seen |-> <<>>, calls |-> 0, delivered |-> <<>>, from |-> 0]
  /\ UNCHANGED <<rooms, messages, now, goc, snd, updLog, faults, sndAtCall,
                 users, posts, gau, msgSub, passes>>

\* (mutant) the handler calls back with the denormalized names before it
\* starts the lookups
ChatsSnapshotCallsFirst ==
  /\ chatSub.pc = "listening"
  /\ LET docs == QueryRooms(chatSub.userId)
         chats == [i \in DOMAIN docs |-> ToUserChat(docs[i], chatSub.userId)]
         unknowns == Unknowns(chats)
         n == chatSub.snapshots + 1
     IN /\ chatSub.snapshots = 0 \/ docs # chatSub.seen
        /\ chatSub' = [chatSub EXCEPT
                         !.snapshots = n, !.seen = docs,
                         !.calls = @ + 1, !.from = n,
                         !.delivered = sortChatsByTime(chats)]
        /\ IF unknowns = {}
           THEN UNCHANGED passes
           ELSE /\ Len(passes) < MaxPasses
                /\ passes' = Append(passes,
                                    [snapshot |-> n, docs |-> docs,
                                     chats |-> chats,
                                     todo |-> [idx \in unknowns |-> "getDoc"],
                                     did |-> [idx \in unknowns |-> <<>>]])
  /\ UNCHANGED <<rooms, messages, now, goc, snd, updLog, faults, sndAtCall,
                 users, posts, gau, msgSub>>

\* the listener receives a snapshot (the first one, or one after the result
\* of the query changed).  With no entry to enrich: sort, callback, return.
\* Otherwise the lookups of a new enrichment pass start and the handler
\* returns without calling back.  A pass keeps the documents of its snapshot
\* (docs, history) next to the entries its lookups work on.
ChatsSnapshot ==
  /\ chatSub.pc = "listening"
  /\ LET docs == QueryRooms(chatSub.userId)
         chats == [i \in DOMAIN docs |-> ToUserChat(docs[i], chatSub.userId)]
         unknowns == Unknowns(chats)
         n == chatSub.snapshots + 1
     IN /\ chatSub.snapshots = 0 \/ docs # chatSub.seen
        /\ IF unknowns = {}
           THEN /\ chatSub' = [chatSub EXCEPT
                                 !.snapshots = n, !.seen = docs,
                                 !.calls = @ + 1, !.from = n,
                                 !.delivered = sortChatsByTime(chats)]
                /\ UNCHANGED passes
           ELSE /\ Len(passes) < MaxPasses
                /\ chatSub' = [chatSub EXCEPT !.snapshots = n, !.seen = docs]
                /\ passes' = Append(passes,
                                    [snapshot |-> n, docs |-> docs,
                                     chats |-> chats,
                                     todo |-> [idx \in unknowns |-> "getDoc"],
                                     did |-> [idx \in unknowns |-> <<>>]])
  /\ UNCHANGED <<rooms, messages, now, goc, snd, updLog, faults, sndAtCall,
                 users, posts, gau, msgSub>>

\* history: a lookup of an entry has settled, resolved (ok) or rejected
Settled(op, ok) == [op |-> op, ok |-> ok]

\* (mutant) the email is tried before the display name
ResolvedNameEmailFirst(data) ==
  IF Truthy(data, "email") THEN data.email
  ELSE IF CleanDisplayName(data) # <<>> THEN data.displayName
  ELSE IF Truthy(data, "userName") THEN data.userName
  ELSE IF Truthy(data, "name") THEN data.name
  ELSE EmptyStr

\* displayName || data.userName || data.name || data.email || null, with
\* displayName cleaned as in getAllUsers; no name is ever "", so the empty
\* string stands for null
ResolvedName(data) ==
  IF CleanDisplayName(data) # <<>> THEN data.displayName
  ELSE IF Truthy(data, "userName") THEN data.userName
  ELSE IF Truthy(data, "name") THEN data.name
  ELSE IF Truthy(data, "email") THEN data.email
  ELSE EmptyStr

\* the entry after the profile document was read (lines 318-338)
WithProfile(chat, data) ==
  LET named == IF ResolvedName(data) # EmptyStr
               THEN [otherUserName |-> ResolvedName(data)] @@ chat
               ELSE chat
  IN IF ~Truthy(named, "otherUserPhoto") /\ Truthy(data, "photoURL")
     THEN [otherUserPhoto |-> data.photoURL] @@ named
     ELSE named

\* (mutant) the name and photo of the profile are written to every entry of
\* the list, not to chats[idx] alone
UserLookupNamesAll(p, idx) ==
  /\ p \in DOMAIN passes
  /\ idx \in DOMAIN passes[p].todo
  /\ passes[p].todo[idx] = "getDoc"
  /\ LET uid == passes[p].chats[idx].otherUserId
         exists == uid \in DOMAIN users
         resolvedName == IF exists THEN ResolvedName(users[uid]) ELSE EmptyStr
     IN passes' = [passes EXCEPT
                     ![p].chats = IF exists
                                  THEN [i \in DOMAIN @ |-> WithProfile(@[i], users[uid])]
                                  ELSE @,
                     ![p].todo[idx] = IF resolvedName = EmptyStr THEN "getDocs"
                                      ELSE "done",
                     ![p].did[idx] = Append(@, Settled("getDoc", TRUE))]
  /\ UNCHANGED <<rooms, messages, now, goc, snd, updLog, faults, sndAtCall,
                 users, posts, gau, msgSub, chatSub>>

\* getDoc(doc(db, "users", otherUserId)) of entry idx of pass p resolves
UserLookup(p, idx) ==
  /\ p \in DOMAIN passes
  /\ idx \in DOMAIN passes[p].todo
  /\ passes[p].todo[idx] = "getDoc"
  /\ LET uid == passes[p].chats[idx].otherUserId
         exists == uid \in DOMAIN users
         resolvedName == IF exists THEN ResolvedName(users[uid]) ELSE EmptyStr
     IN passes' = [passes EXCEPT
                     ![p].chats[idx] = IF exists THEN WithProfile(@, users[uid])
                                       ELSE @,
                     ![p].todo[idx] = IF resolvedName = EmptyStr THEN "getDocs"
                                      ELSE "done",
                     ![p].did[idx] = Append(@, Settled("getDoc", TRUE))]
  /\ UNCHANGED <<rooms, messages, now, goc, snd, updLog, faults, sndAtCall,
                 users, posts, gau, msgSub, chatSub>>

\* (mutant) a rejected getDoc ends the whole pass: the lookups of the other
\* entries are given up
UserLookupFailsEndsPass(p, idx) ==
  /\ p \in DOMAIN passes
  /\ idx \in DOMAIN passes[p].todo
  /\ passes[p].todo[idx] = "getDoc"
  /\ passes' = [passes EXCEPT
                  ![p].todo = [i \in DOMAIN @ |-> "done"],
                  ![p].did[idx] = Append(@, Settled("getDoc", FALSE))]
  /\ UNCHANGED <<rooms, messages, now, goc, snd, updLog, faults, sndAtCall,
                 users, posts, gau, msgSub, chatSub>>

\* getDoc rejects: the outer catch warns, and the entry is left as it is
UserLookupFails(p, idx) ==
  /\ p \in DOMAIN passes
  /\ idx \in DOMAIN passes[p].todo
  /\ passes[p].todo[idx] = "getDoc"
  /\ passes' = [passes EXCEPT ![p].todo[idx] = "done",
                              ![p].did[idx] = Append(@, Settled("getDoc", FALSE))]
  /\ UNCHANGED <<rooms, messages, now, goc, snd, updLog, faults, sndAtCall,
                 users, posts, gau, msgSub, chatSub>>

\* query(posts, where("userId", "==", uid), orderBy("createdAt", "desc"),
\* limit(1)): the ids of the documents of the snapshot, none or one
LatestPost(uid) ==
  LET own == {id \in DOMAIN posts : posts[id].userId = uid}
  IN {id \in own : \A other \in own :
        \/ posts[other].createdAt < posts[id].createdAt
        \/ posts[other].createdAt = posts[id].createdAt /\ other <= id}

\* getDocs(postsQ) of entry idx of pass p resolves
PostLookup(p, idx) ==
  /\ p \in DOMAIN passes
  /\ idx \in DOMAIN passes[p].todo
  /\ passes[p].todo[idx] = "getDocs"
  /\ LET found == LatestPost(passes[p].chats[idx].otherUserId)
         postData == posts[CHOOSE id \in found : TRUE]
     IN passes' = [passes EXCEPT
                     ![p].chats[idx] =
                       IF found # {} /\ Truthy(postData, "userName")
                       THEN [otherUserName |-> postData.userName] @@ @
                       ELSE @,
                     ![p].todo[idx] = "done",
                     ![p].did[idx] = Append(@, Settled("getDocs", TRUE))]
  /\ UNCHANGED <<rooms, messages, now, goc, snd, updLog, faults, sndAtCall,
                 users, posts, gau, msgSub, chatSub>>

\* getDocs(postsQ) rejects: the inner catch ignores it
PostLookupFails(p, idx) ==
  /\ p \in DOMAIN passes
  /\ idx \in DOMAIN passes[p].todo
  /\ passes[p].todo[idx] = "getDocs"
  /\ passes' = [passes EXCEPT ![p].todo[idx] = "done",
                              ![p].did[idx] = Append(@, Settled("getDocs", FALSE))]
  /\ UNCHANGED <<rooms, messages, now, goc, snd, updLog, faults, sndAtCall,
                 users, posts, gau, msgSub, chatSub>>

\* (mutant) a rejected lookup rejects the promise of its entry and with it
\* Promise.all, and no catch() calls back
PassSettlesResolvedOnly(p) ==
  /\ p \in DOMAIN passes
  /\ \A idx \in DOMAIN passes[p].todo :
       /\ passes[p].todo[idx] = "done"
       /\ \A k \in DOMAIN passes[p].did[idx] : passes[p].did[idx][k].ok
  /\ chatSub' = [chatSub EXCEPT
                   !.calls = @ + 1, !.from = passes[p].snapshot,
                   !.delivered = sortChatsByTime(passes[p].chats)]
  /\ passes' = SubSeq(passes, 1, p - 1) \o SubSeq(passes, p + 1, Len(passes))
  /\ UNCHANGED <<rooms, messages, now, goc, snd, updLog, faults, sndAtCall,
                 users, posts, gau, msgSub>>

\* every lookup of pass p has settled: Promise.all resolves, and then() sorts
\* and calls back, whether or not the listener is still registered
PassSettles(p) ==
  /\ p \in DOMAIN passes
  /\ \A idx \in DOMAIN passes[p].todo : passes[p].todo[idx] = "done"
  /\ chatSub' = [chatSub EXCEPT
                   !.calls = @ + 1, !.from = passes[p].snapshot,
                   !.delivered = sortChatsByTime(passes[p].chats)]
  /\ passes' = SubSeq(passes, 1, p - 1) \o SubSeq(passes, p + 1, Len(passes))
  /\ UNCHANGED <<rooms, messages, now, goc, snd, updLog, faults, sndAtCall,
                 users, posts, gau, msgSub>>

\* the function subscribeToUserChats returned is called: the listener is
\* removed; calling it again changes nothing
UnsubscribeFromUserChats ==
  /\ chatSub.pc \in {"listening", "closed"}
  /\ chatSub' = [chatSub EXCEPT !.pc = "closed"]
  /\ UNCHANGED <<rooms, messages, now, goc, snd, updLog, faults, sndAtCall,
                 users, posts, gau, msgSub, passes>>

\* ------------------------------------------------------------ specifications

\* the messages a caller sends
SentMessages == {[text |-> TextHi, user |-> "A"], [text |-> TextYo, user |-> "B"]}

\* the steps of the getOrCreateChatRoom calls of the slots S, whose callers
\* pass profiles of P
GocStep(S, P) ==
  \/ \E c \in S, u1 \in Users, u2 \in Users, d1 \in P, d2 \in P :
       GocCall(c, u1, u2, d1, d2)
  \/ \E c \in S, u1 \in Users, u2 \in Users : GocCallFails(c, u1, u2)
  \/ \E c \in S, id \in RoomIds : GocAddDoc(c, id)
  \/ \E c \in S : GocAddDocFails(c)

\* what the input of the chat screen holds when Send is pressed
TypedTexts == {EmptyStr, Blank, TextHi, PaddedYo}

\* the Send button of ChatScreen (renderSend): the texts props.onSend is
\* called with, none or one; the text is tested before it is trimmed
renderSend(text) == IF text # EmptyStr THEN {Trim(text)} ELSE {}

\* the messages ChatScreen.onSend passes to sendMessage for user A
ScreenMessages ==
  {[text |-> t, user |-> "A"] : t \in UNION {renderSend(x) : x \in TypedTexts}}

\* the steps of the sendMessage calls of the slots S, whose callers send
\* messages of M
SendStep(S, M) ==
  \/ \E c \in S, r \in RoomIdArgs, m \in M, id \in MsgIds :
       SendCall(c, r, m, id)
  \/ \E c \in S, r \in RoomIdArgs, m \in M :
       SendCallFails(c, r, m)
  \/ \E c \in S : SendUpdateDoc(c)
  \/ \E c \in S : SendUpdateDocFails(c)

\* the steps of the getAllUsers calls made for the users of V
UsersStep(V) ==
  \/ \E c \in GauCalls, u \in V : GetAllUsers(c, u)
  \/ \E c \in GauCalls, u \in V : GetAllUsersFails(c, u)

\* the steps of the subscribeToMessages listener
MessagesStep ==
  \/ \E r \in RoomIdArgs : SubscribeToMessages(r)
  \/ MessagesSnapshot
  \/ UnsubscribeFromMessages

\* the steps of the subscribeToUserChats listener and its enrichment passes
ChatsStep ==
  \/ \E u \in Users : SubscribeToUserChats(u)
  \/ ChatsSnapshot
  \/ \E p \in 1..MaxPasses, idx \in RoomIds : UserLookup(p, idx)
  \/ \E p \in 1..MaxPasses, idx \in RoomIds : UserLookupFails(p, idx)
  \/ \E p \in 1..MaxPasses, idx \in RoomIds : PostLookup(p, idx)
  \/ \E p \in 1..MaxPasses, idx \in RoomIds : PostLookupFails(p, idx)
  \/ \E p \in 1..MaxPasses : PassSettles(p)
  \/ UnsubscribeFromUserChats

\* rooms and messages together; the callers are the screens, which pass
\* complete profiles
Next == Tick \/ GocStep(GocCalls, ScreenProfiles) \/ SendStep(SendCalls, SentMessages)

Spec == Init /\ [][Next]_vars

\* room creation alone, for every shape of profile
NextRooms == Tick \/ GocStep(GocCalls, Profiles)

SpecRooms == Init /\ [][NextRooms]_vars

\* one room and the sends of the chat screen, for everything a user can type
NextTyped ==
  Tick \/ GocStep({1}, ScreenProfiles) \/ SendStep(SendCalls, ScreenMessages)

SpecTyped == Init /\ [][NextTyped]_vars

\* one room, the sends to it and the listener of a chat screen
NextMessages ==
  \/ Tick
  \/ GocStep({1}, ScreenProfiles)
  \/ SendStep(SendCalls, SentMessages)
  \/ MessagesStep

SpecMessages == Init /\ [][NextMessages]_vars

\* the argument pairs of the calls that created the rooms of a store
StoredPairs == {<<"A", "B">>, <<"B", "A">>, <<"A", "A">>}

\* what updateDoc has left in a room: nothing yet, or the preview of a send
StoredPreviews ==
  { [lastMessage |-> EmptyStr, lastMessageTime |-> Null],
    [lastMessage |-> TextHi, lastMessageTime |-> Stamp(0)],
    [lastMessage |-> TextYo, lastMessageTime |-> Stamp(MaxTime)] }

\* the rooms earlier calls can have left: created by getOrCreateChatRoom at
\* time 0 and, for some, updated by sendMessage since
StoredRooms ==
  { [NewChatRoom(p[1], p[2], d1, d2, 0) EXCEPT
       !.lastMessage = v.lastMessage, !.lastMessageTime = v.lastMessageTime] :
    p \in StoredPairs, d1 \in ListProfiles, d2 \in ListProfiles,
    v \in StoredPreviews }

\* the chatRooms collections a listener can find when it is registered
RoomStores == UNION {[D -> StoredRooms] : D \in {{}, {1}, RoomIds}}

\* the message behind the preview of each room of such a collection
MessagesOfStore(store) ==
  [id \in {r \in DOMAIN store : store[r].lastMessageTime # Null} |->
     MessageData(id, [text |-> store[id].lastMessage,
                      user |-> store[id].participants[1]],
                 store[id].lastMessageTime[1])]

\* a store of S as earlier calls left it, no call of this behaviour made yet
InitStore(S) ==
  /\ rooms \in S
  /\ messages = MessagesOfStore(rooms)
  /\ now = IF \E r \in DOMAIN rooms : rooms[r].lastMessageTime = Stamp(MaxTime)
           THEN MaxTime ELSE 0
  /\ goc = [c \in GocCalls |-> IdleGoc]
  /\ snd = [c \in SendCalls |-> IdleSnd]
  /\ updLog = <<>>
  /\ faults = {}
  /\ sndAtCall = [c \in SendCalls |-> [inFlight |-> {}, stored |-> {}]]
  /\ users = UserDocs
  /\ posts = PostDocs
  /\ gau = [c \in GauCalls |-> IdleGau]
  /\ msgSub = NoSub
  /\ chatSub = NoSub
  /\ passes = <<>>

InitChats == InitStore(RoomStores)

\* the listener of the list of chats over such a store, next to one call of
\* getOrCreateChatRoom
NextChats == GocStep({1}, ListProfiles) \/ ChatsStep

SpecChats == InitChats /\ [][NextChats]_vars

\* the pending lookup of entry idx of pass p settles, resolved or rejected
LookupSettles(p, idx) ==
  \/ UserLookup(p, idx)
  \/ UserLookupFails(p, idx)
  \/ PostLookup(p, idx)
  \/ PostLookupFails(p, idx)

\* every lookup that was issued settles in the end, and the then() of a
\* Promise.all whose promises have all settled is run by the event loop
FairChats ==
  /\ \A p \in 1..MaxPasses, idx \in RoomIds : WF_vars(LookupSettles(p, idx))
  /\ \A p \in 1..MaxPasses : WF_vars(PassSettles(p))

\* the collections whose rooms are as getOrCreateChatRoom created them, no
\* message sent to any of them yet
FreshStores ==
  {store \in RoomStores :
     \A r \in DOMAIN store : store[r].lastMessageTime = Null}

InitFresh == InitChats /\ rooms \in FreshStores

\* the listener of the list of chats over such a collection, under these
\* conditions
SpecChatsLive == InitFresh /\ [][NextChats]_vars /\ FairChats

\* rooms of A with two different counterparts: C has no profile document
\* and no post
ThreeWayPairs == {<<"A", "B">>, <<"C", "A">>, <<"A", "A">>}

ThreeWayRooms ==
  { [NewChatRoom(p[1], p[2], d1, d2, 0) EXCEPT
       !.lastMessage = v.lastMessage, !.lastMessageTime = v.lastMessageTime] :
    p \in ThreeWayPairs, d1 \in ListProfiles, d2 \in ListProfiles,
    v \in StoredPreviews }

ThreeWayStores == UNION {[D -> ThreeWayRooms] : D \in {{}, {1}, RoomIds}}

InitThreeWay == InitStore(ThreeWayStores)

\* the listener of the list of chats over the rooms of three users
SpecThreeWay == InitThreeWay /\ [][NextChats]_vars

\* the profile documents the users collection can hold: the fields the
\* service reads, each of which may be missing or blank
StoredProfiles ==
  { [displayName |-> NameAl, email |-> MailAx, photoURL |-> PhotoP],
    [displayName |-> Blank, photoURL |-> PhotoP],
    [displayName |-> EmptyStr, email |-> MailAx],
    [displayName |-> PaddedBo, email |-> EmptyStr],
    [email |-> MailAx, photoURL |-> EmptyStr],
    [userName |-> NameBo, email |-> MailAx],
    [name |-> NameBo],
    [photoURL |-> PhotoP] }

\* the users collections: a profile document for none, some or all users
UserDirs == UNION {[D -> StoredProfiles] : D \in SUBSET Users}

\* the users getAllUsers is called for: "C" has no profile document
Viewers == Users \cup {"C"}

\* any users collection, nothing else stored, no call made yet
InitUsers ==
  /\ rooms = <<>>
  /\ messages = <<>>
  /\ now = 0
  /\ goc = [c \in GocCalls |-> IdleGoc]
  /\ snd = [c \in SendCalls |-> IdleSnd]
  /\ updLog = <<>>
  /\ faults = {}
  /\ sndAtCall = [c \in SendCalls |-> [inFlight |-> {}, stored |-> {}]]
  /\ users \in UserDirs
  /\ posts = PostDocs
  /\ gau = [c \in GauCalls |-> IdleGau]
  /\ msgSub = NoSub
  /\ chatSub = NoSub
  /\ passes = <<>>

\* the getAllUsers calls over such a collection
NextUsers == UsersStep(Viewers)

SpecUsers == InitUsers /\ [][NextUsers]_vars

\* no getAllUsers call was made / no listener was registered
NoUsersCall == \A c \in GauCalls : gau[c].pc = "idle"
NoMessagesSub == msgSub.pc = "none"
NoChatsSub == chatSub.pc = "none"
\* only the first getOrCreateChatRoom slot was used
FirstCallOnly == \A c \in GocCalls \ {1} : goc[c].pc = "idle"

\* every operation of the service.  The readers write to nothing the writers
\* or the other readers read, so a behaviour runs one kind of reader next to
\* one getOrCreateChatRoom and one sendMessage call, or no reader next to
\* every getOrCreateChatRoom call and one sendMessage call.
NextAll ==
  \/ Tick
  \/ GocStep({1}, ListProfiles)
  \/ SendStep({1}, SentMessages)
  \/ NoUsersCall /\ NoMessagesSub /\ NoChatsSub
       /\ GocStep(GocCalls \ {1}, ListProfiles)
  \/ FirstCallOnly /\ NoMessagesSub /\ NoChatsSub /\ UsersStep(Users)
  \/ FirstCallOnly /\ NoUsersCall /\ NoChatsSub /\ MessagesStep
  \/ FirstCallOnly /\ NoUsersCall /\ NoMessagesSub /\ ChatsStep

SpecAll == Init /\ [][NextAll]_vars

\* ------------------------------------------------------------------ claims

\* the unordered pair a room is between
PairOf(room) == {room.participants[1], room.participants[2]}

\* the rooms between userId1 and userId2
RoomsOfPair(userId1, userId2) ==
  {id \in DOMAIN rooms : PairOf(rooms[id]) = {userId1, userId2}}

\* C1: under any interleaving of getOrCreateChatRoom calls, at most one room
\* exists for each pair of two users, and all resolved calls for one pair (in
\* either argument order) have returned the same room id.
C1_OneRoomPerPair ==
  /\ \A id1 \in DOMAIN rooms, id2 \in DOMAIN rooms :
       (PairOf(rooms[id1]) = PairOf(rooms[id2]) /\ Cardinality(PairOf(rooms[id1])) = 2)
         => id1 = id2
  /\ \A c \in GocCalls, d \in GocCalls :
       (/\ goc[c].pc = "resolved" /\ goc[d].pc = "resolved"
        /\ goc[c].userId1 # goc[c].userId2
        /\ {goc[c].userId1, goc[c].userId2} = {goc[d].userId1, goc[d].userId2})
         => goc[c].result = goc[d].result

\* slot c's call is made in this step and its getDocs resolves
GocQueried(c) == goc[c].pc = "idle" /\ goc'[c].pc \in {"resolved", "addDoc"}

\* C2: a call for two users A # B (in either order) made when a room between
\* them exists resolves with the id of a room between them, creates no
\* document and leaves every stored room and message as it was, whatever
\* profiles are passed.
C2_ExistingRoomReturned ==
  [][\A c \in GocCalls :
       (/\ GocQueried(c)
        /\ goc'[c].userId1 # goc'[c].userId2
        /\ RoomsOfPair(goc'[c].userId1, goc'[c].userId2) # {})
         => /\ goc'[c].pc = "resolved"
            /\ goc'[c].created = FALSE
            /\ goc'[c].result \in RoomsOfPair(goc'[c].userId1, goc'[c].userId2)
            /\ rooms' = rooms
            /\ messages' = messages]_vars

\* C2's case: a room between A and B exists and calls in both argument orders
\* have returned it without creating anything
C2_Witness ==
  \E c \in GocCalls, d \in GocCalls :
    /\ goc[c].pc = "resolved" /\ goc[c].created
    /\ goc[d].pc = "resolved" /\ ~goc[d].created
    /\ goc[c].userId1 # goc[c].userId2
    /\ goc[d].userId1 = goc[c].userId2 /\ goc[d].userId2 = goc[c].userId1
    /\ goc[d].result = goc[c].result

\* a string with a character that is not white space
NonBlank(s) == \E i \in DOMAIN s : ~IsSpace(s[i])

\* the name the claim gives a profile: its displayName if that is not blank,
\* otherwise its email if that is not empty, otherwise "Unknown User"
ExpectedName(p) ==
  IF "displayName" \in DOMAIN p /\ NonBlank(p.displayName) THEN p.displayName
  ELSE IF "email" \in DOMAIN p /\ p.email # EmptyStr THEN p.email
  ELSE UnknownUser

\* C3: a call for two users A # B made when no room between them exists goes
\* on to create one; the create adds exactly one document, with participants
\* <<A, B>>, lastMessage "", lastMessageTime null and, for A and for B, a
\* participantDetails entry whose displayName is the profile's displayName if
\* not blank, else its email if not empty, else "Unknown User", never ""; the
\* call returns the new document's id.
C3_CreatesRoom ==
  [][\A c \in GocCalls :
       /\ (/\ GocQueried(c)
           /\ goc'[c].userId1 # goc'[c].userId2
           /\ RoomsOfPair(goc'[c].userId1, goc'[c].userId2) = {})
            => (goc'[c].pc = "addDoc" /\ rooms' = rooms)
       /\ (/\ goc[c].pc = "addDoc" /\ goc'[c].pc = "resolved"
           /\ goc[c].userId1 # goc[c].userId2)
            => \E id \in RoomIds \ DOMAIN rooms :
                 /\ DOMAIN rooms' = DOMAIN rooms \cup {id}
                 /\ \A old \in DOMAIN rooms : rooms'[old] = rooms[old]
                 /\ goc'[c].result = id
                 /\ rooms'[id].participants = <<goc[c].userId1, goc[c].userId2>>
                 /\ rooms'[id].lastMessage = EmptyStr
                 /\ rooms'[id].lastMessageTime = Null
                 /\ DOMAIN rooms'[id].participantDetails = {goc[c].userId1, goc[c].userId2}
                 /\ rooms'[id].participantDetails[goc[c].userId1].displayName
                      = ExpectedName(goc[c].user1Data)
                 /\ rooms'[id].participantDetails[goc[c].userId2].displayName
                      = ExpectedName(goc[c].user2Data)
                 /\ \A u \in DOMAIN rooms'[id].participantDetails :
                      rooms'[id].participantDetails[u].displayName # EmptyStr]_vars

\* C3's case: a created room between two users, one named by an email (the
\* displayName was blank), the other "Unknown User", returned by its call
C3_Witness ==
  \E c \in GocCalls :
    /\ goc[c].pc = "resolved" /\ goc[c].created
    /\ goc[c].userId1 # goc[c].userId2
    /\ goc[c].result \in DOMAIN rooms
    /\ rooms[goc[c].result].participantDetails[goc[c].userId1].displayName = MailAx
    /\ rooms[goc[c].result].participantDetails[goc[c].userId2].displayName = UnknownUser

\* the stored messages of a room, in a messages collection
MessagesOf(msgs, chatRoomId) == {id \in DOMAIN msgs : msgs[id].chatRoomId = chatRoomId}

\* slot c's call awaits updateDoc and this step resolves it
SendResolves(c) == snd[c].pc = "updateDoc" /\ snd'[c].pc = "resolved"

\* no other sendMessage to the same room was in flight while slot c's call was
SentAlone(c) ==
  /\ sndAtCall[c].inFlight = {}
  /\ \A d \in SendCalls :
       d > c => (snd[d].pc = "idle" \/ snd[d].chatRoomId # snd[c].chatRoomId)

\* C4: when sendMessage(R, m) resolves and no other send to R was in flight
\* during the call, R holds exactly one message that it did not hold when the
\* call was made, that message has text m.text, and R's lastMessage is m.text
\* with a lastMessageTime that is not null.
C4_SendStoresAndPreviews ==
  [][\A c \in SendCalls :
       (SendResolves(c) /\ SentAlone(c))
         => LET R == snd[c].chatRoomId
                new == MessagesOf(messages', R) \ sndAtCall[c].stored
            IN /\ Cardinality(new) = 1
               /\ \A id \in new : /\ messages'[id].text = snd[c].message.text
                                  /\ messages'[id].chatRoomId = R
               /\ rooms'[R].lastMessage = snd[c].message.text
               /\ rooms'[R].lastMessageTime # Null]_vars

\* C4's case: a send to a room that already held another message has resolved,
\* alone, and the room shows its text
C4_Witness ==
  \E c \in SendCalls :
    /\ snd[c].pc = "resolved"
    /\ SentAlone(c)
    /\ sndAtCall[c].stored # {}
    /\ rooms[snd[c].chatRoomId].lastMessage = snd[c].message.text
    /\ \E id \in sndAtCall[c].stored : messages[id].text # snd[c].message.text

\* C5: in every reachable state, whatever writes have failed or are still
\* awaited, a room whose lastMessage is not empty holds a stored message with
\* that text.
C5_PreviewIsStored ==
  \A r \in DOMAIN rooms :
    rooms[r].lastMessage # EmptyStr
      => \E id \in MessagesOf(messages, r) : messages[id].text = rooms[r].lastMessage

\* C5's case: a room shows a stored message while a newer message of the room
\* is stored and its preview update has failed: the preview lags
C5_Witness ==
  \E r \in DOMAIN rooms, c \in SendCalls :
    /\ rooms[r].lastMessage # EmptyStr
    /\ snd[c].pc = "rejected" /\ snd[c].error = "updateDoc"
    /\ snd[c].chatRoomId = r
    /\ snd[c].message.text # rooms[r].lastMessage
    /\ \E id \in MessagesOf(messages, r) : messages[id].text = snd[c].message.text

\* C6: a sendMessage call one of whose writes the store rejected is rejected
\* with that write's error; the rejecting step writes nothing; and when the
\* rejected write is the append, the call never attempts the room update.
C6_SendErrorPropagates ==
  [][\A c \in SendCalls :
       /\ \A op \in {"addDoc", "updateDoc"} :
            <<"sendMessage", c, op>> \in faults'
              => (snd'[c].pc = "rejected" /\ snd'[c].error = op)
       /\ (\E op \in {"addDoc", "updateDoc"} :
             <<"sendMessage", c, op>> \in faults' \ faults)
            => (rooms' = rooms /\ messages' = messages)
       /\ <<"sendMessage", c, "addDoc">> \in faults'
            => /\ <<"sendMessage", c, "updateDoc">> \notin faults'
               /\ ~Includes(updLog', c)]_vars

\* C6's case: one call to a room rejected by a failed append, another by a
\* failed room update
C6_Witness ==
  \E c \in SendCalls, d \in SendCalls :
    /\ snd[c].pc = "rejected" /\ snd[c].error = "addDoc"
    /\ snd[c].chatRoomId \in DOMAIN rooms
    /\ snd[d].pc = "rejected" /\ snd[d].error = "updateDoc"
    /\ snd[d].chatRoomId \in DOMAIN rooms

\* the calls whose append the store applied
Appended(c) ==
  \/ snd[c].pc \in {"updateDoc", "resolved"}
  \/ snd[c].pc = "rejected" /\ snd[c].error = "updateDoc"

\* the last element of updLog that is a call to room r, 0 when there is none
RECURSIVE LastUpdater(_, _)
LastUpdater(log, r) ==
  IF log = <<>> THEN 0
  ELSE IF snd[log[Len(log)]].chatRoomId = r THEN log[Len(log)]
       ELSE LastUpdater(SubSeq(log, 1, Len(log) - 1), r)

\* C7: under any interleaving of sendMessage calls, the stored messages with
\* a given room, text and sender are exactly as many as the calls that
\* appended such a message (none lost, overwritten or duplicated), and once no
\* update of a room is awaited the room's lastMessage is the text of the call
\* whose room update was applied last.
C7_ConcurrentSends ==
  /\ \A r \in RoomIds \cup {AbsentRoomId}, m \in SentMessages :
       Cardinality({id \in DOMAIN messages :
                      /\ messages[id].chatRoomId = r
                      /\ messages[id].text = m.text
                      /\ messages[id].user = m.user})
         = Cardinality({c \in SendCalls :
                          Appended(c) /\ snd[c].chatRoomId = r /\ snd[c].message = m})
  /\ \A r \in DOMAIN rooms :
       (/\ LastUpdater(updLog, r) # 0
        /\ \A c \in SendCalls : ~(snd[c].pc = "updateDoc" /\ snd[c].chatRoomId = r))
         => rooms[r].lastMessage = snd[LastUpdater(updLog, r)].message.text

\* C7's case: two overlapping sends of different texts to one room have both
\* resolved, and the call made first had its room update applied last
C7_Witness ==
  /\ updLog = <<2, 1>>
  /\ snd[1].pc = "resolved" /\ snd[2].pc = "resolved"
  /\ snd[1].chatRoomId = snd[2].chatRoomId
  /\ snd[1].message.text # snd[2].message.text
  /\ 1 \in sndAtCall[2].inFlight
  /\ rooms[snd[1].chatRoomId].lastMessage = snd[1].message.text

\* C8: in every reachable state, every stored message's chatRoomId is the id
\* of a stored room, whatever roomId sendMessage is called with.
C8_MessageHasRoom ==
  \A id \in DOMAIN messages : messages[id].chatRoomId \in DOMAIN rooms

\* C9: no step changes or deletes a stored message: it stays, with the same
\* text, user, createdAt and chatRoomId.
C9_MessagesImmutable ==
  [][\A id \in DOMAIN messages :
       /\ id \in DOMAIN messages'
       /\ messages'[id].text = messages[id].text
       /\ messages'[id].user = messages[id].user
       /\ messages'[id].createdAt = messages[id].createdAt
       /\ messages'[id].chatRoomId = messages[id].chatRoomId]_vars

\* C9's case: after a message was stored, the clock has moved, another message
\* was stored in the same room and a room update was applied
C9_Witness ==
  \E id1 \in DOMAIN messages, id2 \in DOMAIN messages :
    /\ messages[id1].createdAt < messages[id2].createdAt
    /\ messages[id1].chatRoomId = messages[id2].chatRoomId
    /\ updLog # <<>>

\* C10: a room, once created, is never deleted and its participants,
\* createdAt and participantDetails never change; the only fields of an
\* existing room that any step changes are lastMessage and lastMessageTime,
\* and the step that changes them is the room update of a sendMessage call
\* on that room: no step of getOrCreateChatRoom, of either subscription, of
\* an enrichment pass or of getAllUsers writes to an existing room.
RoomUpdatedBySend(id) ==
  \E c \in SendCalls :
    /\ snd[c].pc = "updateDoc"
    /\ snd[c].chatRoomId = id
    /\ snd'[c].pc = "resolved"

RoomFrame(id) ==
  /\ id \in DOMAIN rooms'
  /\ DOMAIN rooms'[id] = DOMAIN rooms[id]
  /\ rooms'[id].participants = rooms[id].participants
  /\ rooms'[id].createdAt = rooms[id].createdAt
  /\ rooms'[id].participantDetails = rooms[id].participantDetails
  /\ rooms'[id] # rooms[id] => RoomUpdatedBySend(id)

C10_RoomFrame == [][\A id \in DOMAIN rooms : RoomFrame(id)]_vars

\* a room created by one call was later found by a second call and updated
\* by a send when the clock had moved on: it still holds what it was
\* created with, next to the preview of the send
C10_Witness ==
  \E c1 \in GocCalls, c2 \in GocCalls, s \in SendCalls :
    /\ goc[c1].pc = "resolved" /\ goc[c1].created
    /\ goc[c2].pc = "resolved" /\ ~goc[c2].created
    /\ goc[c2].result = goc[c1].result
    /\ snd[s].pc = "resolved" /\ snd[s].chatRoomId = goc[c1].result
    /\ LET room == rooms[goc[c1].result]
       IN /\ room.participants = <<goc[c1].userId1, goc[c1].userId2>>
          /\ room.createdAt < now
          /\ room.lastMessage = snd[s].message.text
          /\ room.lastMessageTime = Stamp(now)
          /\ \E u \in DOMAIN room.participantDetails :
               room.participantDetails[u].displayName = UnknownUser

\* C11: in every reachable state every room's participants holds exactly two
\* user ids and the two are distinct, whatever pair of ids
\* getOrCreateChatRoom was called with.
C11_TwoDistinctParticipants ==
  \A id \in DOMAIN rooms :
    /\ Len(rooms[id].participants) = 2
    /\ rooms[id].participants[1] # rooms[id].participants[2]

\* C12: in every reachable state every stored message has a non-empty text,
\* whatever text sendMessage was called with.
C12_TextNonEmpty ==
  \A id \in DOMAIN messages : messages[id].text # EmptyStr

\* the place of the document with this id in a snapshot
PlaceIn(docs, id) == CHOOSE k \in DOMAIN docs : docs[k].id = id

\* C13: the array subscribeToMessages delivers on a snapshot is ordered by
\* createdAt descending: each element's createdAt is greater than or equal
\* to that of the element after it, so a message with a later timestamp
\* comes before every message with an earlier one and the message with the
\* latest timestamp is at index 0; messages with equal createdAt keep the
\* order they had in the snapshot.
C13_MessagesNewestFirst ==
  msgSub.pc # "none" =>
    LET d == msgSub.delivered
    IN /\ \A i \in 1..(Len(d) - 1) : d[i].createdAt >= d[i + 1].createdAt
       /\ \A i \in DOMAIN d, j \in DOMAIN d :
            (i < j /\ d[i].createdAt = d[j].createdAt)
              => PlaceIn(msgSub.seen, d[i]._id) < PlaceIn(msgSub.seen, d[j]._id)
       /\ \A i \in DOMAIN d, j \in DOMAIN d :
            d[i].createdAt > d[j].createdAt => i < j
       /\ \A i \in DOMAIN d :
            (\A j \in DOMAIN d \ {i} : d[i].createdAt > d[j].createdAt) => i = 1

\* two messages sent one after the other at timestamps t1 < t2, which the
\* snapshot holds oldest first, were delivered as [msg(t2), msg(t1)]
C13_Witness ==
  /\ msgSub.pc = "listening"
  /\ Len(msgSub.seen) = 2
  /\ msgSub.seen[1].data.createdAt < msgSub.seen[2].data.createdAt
  /\ Len(msgSub.delivered) = 2
  /\ msgSub.delivered[1]._id = msgSub.seen[2].id
  /\ msgSub.delivered[2]._id = msgSub.seen[1].id
  /\ \A c \in SendCalls : snd[c].pc = "resolved"

\* the array holds exactly the messages stored for the room, each once and
\* as stored, and no message of another room
CompleteFor(delivered, chatRoomId) ==
  LET stored == {id \in DOMAIN messages : messages[id].chatRoomId = chatRoomId}
  IN /\ {delivered[i]._id : i \in DOMAIN delivered} = stored
     /\ Len(delivered) = Cardinality(stored)
     /\ \A i \in DOMAIN delivered :
          LET m == messages[delivered[i]._id]
          IN /\ delivered[i].text = m.text
             /\ delivered[i].user = m.user
             /\ delivered[i].createdAt = m.createdAt
             /\ delivered[i].chatRoomId = chatRoomId

\* C14: each delivery of subscribeToMessages is the complete set, not a
\* diff: the callback is invoked exactly once per snapshot, in the step of
\* the snapshot handler, with an array that contains exactly the messages
\* stored with the room's id in that snapshot, each exactly once, and no
\* message of another room; without a snapshot the callback is not invoked.
C14_CompleteDelivery ==
  [][/\ (msgSub.pc = "none" /\ msgSub'.pc # "none") =>
          (msgSub'.calls = 0 /\ msgSub'.snapshots = 0)
     /\ msgSub.pc = "listening" =>
          /\ msgSub'.snapshots \in {msgSub.snapshots, msgSub.snapshots + 1}
          /\ msgSub'.calls - msgSub.calls = msgSub'.snapshots - msgSub.snapshots
          /\ msgSub'.snapshots = msgSub.snapshots =>
               msgSub'.delivered = msgSub.delivered
          /\ msgSub'.snapshots = msgSub.snapshots + 1 =>
               /\ messages' = messages
               /\ CompleteFor(msgSub'.delivered, msgSub.chatRoomId)]_vars

\* the second snapshot of a room delivered both of its messages, the one
\* the first snapshot had delivered already included
C14_Witness ==
  /\ msgSub.pc = "listening"
  /\ msgSub.snapshots = 2
  /\ msgSub.calls = 2
  /\ Len(msgSub.delivered) = 2
  /\ msgSub.chatRoomId \in DOMAIN rooms

\* C15: after the function subscribeToMessages returned has been called, the
\* callback is never invoked again, whatever is sent to the room afterwards:
\* the count of invocations and the delivered array stay as they are, and a
\* second call of the function changes nothing.
C15_NoCallbackAfterUnsubscribe ==
  [][msgSub.pc = "closed" => msgSub' = msgSub]_vars

\* the listener of a room was removed after one delivery, and a message
\* stored in the room since then was never delivered
C15_Witness ==
  /\ msgSub.pc = "closed"
  /\ msgSub.calls = 1
  /\ \E c \in SendCalls :
       /\ snd[c].pc = "resolved"
       /\ snd[c].chatRoomId = msgSub.chatRoomId
  /\ \E id \in DOMAIN messages :
       /\ messages[id].chatRoomId = msgSub.chatRoomId
       /\ \A i \in DOMAIN msgSub.delivered : msgSub.delivered[i]._id # id

\* the entry's name was resolved by the enrichment pass: the room stores the
\* placeholder for the counterpart and the entry shows another name
Enriched(chat) ==
  /\ chat.otherUserId # NoUser
  /\ rooms[chat.chatRoomId].participantDetails[chat.otherUserId].displayName
       = UnknownUser
  /\ chat.otherUserName # UnknownUser

\* C16: every array subscribeToUserChats delivers, on the path without
\* enrichment and after an enrichment pass alike, is ordered by
\* lastMessageTime descending, and every entry without a lastMessageTime
\* comes after every entry that has one.
C16_ChatsNewestFirst ==
  chatSub.pc # "none" =>
    LET d == chatSub.delivered
    IN \A i \in DOMAIN d, j \in DOMAIN d :
         i < j =>
           /\ HasTime(d[j]) => HasTime(d[i])
           /\ (HasTime(d[i]) /\ HasTime(d[j])) =>
                d[i].lastMessageTime >= d[j].lastMessageTime

\* after an enrichment pass the list was delivered with the second room of
\* the snapshot in front of the first, the first being older or without a
\* lastMessageTime
C16_Witness ==
  /\ chatSub.pc = "listening"
  /\ chatSub.calls > 0
  /\ Len(chatSub.delivered) = 2
  /\ chatSub.delivered[1].chatRoomId = 2
  /\ chatSub.delivered[2].chatRoomId = 1
  /\ HasTime(chatSub.delivered[1])
  /\ \E i \in DOMAIN chatSub.delivered : Enriched(chatSub.delivered[i])

\* the entries the handler of a snapshot taken now builds
SnapshotChats ==
  LET docs == QueryRooms(chatSub.userId)
  IN [i \in DOMAIN docs |-> ToUserChat(docs[i], chatSub.userId)]

\* the listener receives a snapshot in this step
ChatsSnapshotTaken ==
  /\ chatSub.pc = "listening"
  /\ chatSub'.snapshots = chatSub.snapshots + 1

\* the enrichment pass of snapshot n ends in this step
PassEnds(p) ==
  \A q \in DOMAIN passes' : passes'[q].snapshot # passes[p].snapshot

NeedsEnrichment(chat) ==
  chat.otherUserName = UnknownUser /\ chat.otherUserId # NoUser

\* C18: for a snapshot in which no entry needs enrichment, the callback is
\* invoked exactly once, within the snapshot handler, with the sorted list
\* of the snapshot's entries, and no profile or post lookup is issued: no
\* pass is started for that snapshot, and every pass that runs has lookups
\* for entries with a counterpart only.
C18_OnceWithoutEnrichment ==
  [][/\ (ChatsSnapshotTaken
          /\ \A i \in DOMAIN SnapshotChats : ~NeedsEnrichment(SnapshotChats[i]))
        => /\ chatSub'.calls = chatSub.calls + 1
           /\ chatSub'.from = chatSub'.snapshots
           /\ chatSub'.delivered = sortChatsByTime(SnapshotChats)
           /\ Len(chatSub'.delivered) = Len(SnapshotChats)
           /\ \A i \in DOMAIN chatSub'.delivered, j \in DOMAIN chatSub'.delivered :
                i < j => CompareChats(chatSub'.delivered[i],
                                      chatSub'.delivered[j]) <= 0
           /\ passes' = passes
     /\ \A p \in DOMAIN passes' :
          /\ passes'[p].snapshot <= chatSub'.snapshots
          /\ DOMAIN passes'[p].todo # {}
          /\ \A idx \in DOMAIN passes'[p].todo :
               passes'[p].chats[idx].otherUserId # NoUser]_vars

\* the one delivery of the first snapshot came without a pass: two entries,
\* none needing enrichment, one of them a room that names no counterpart
\* and shows the placeholder
C18_Witness ==
  /\ chatSub.pc = "listening"
  /\ chatSub.snapshots = 1
  /\ chatSub.calls = 1
  /\ chatSub.from = 1
  /\ passes = <<>>
  /\ Len(chatSub.delivered) = 2
  /\ \A i \in DOMAIN chatSub.delivered :
       /\ ~NeedsEnrichment(chatSub.delivered[i])
       /\ ~Enriched(chatSub.delivered[i])
  /\ \E i \in DOMAIN chatSub.delivered :
       /\ chatSub.delivered[i].otherUserId = NoUser
       /\ chatSub.delivered[i].otherUserName = UnknownUser

\* the entry of a delivered list for a room
EntryOf(delivered, chatRoomId) ==
  delivered[CHOOSE i \in DOMAIN delivered : delivered[i].chatRoomId = chatRoomId]

\* the profile lookup of entry idx of pass p resolved
ProfileRead(p, idx) ==
  /\ passes[p].did[idx] # <<>>
  /\ passes[p].did[idx][1] = Settled("getDoc", TRUE)

\* C19: if an entry's denormalized name is the placeholder, the
\* counterpart's profile document has a displayName that is neither empty
\* nor whitespace only, and the profile lookup succeeds, then the list
\* delivered after the enrichment pass shows that displayName for the
\* entry, not "Unknown User".
C19_ProfileNameShown ==
  [][\A p \in DOMAIN passes :
       PassEnds(p) =>
         \A idx \in DOMAIN passes[p].todo :
           LET uid == passes[p].chats[idx].otherUserId
           IN (/\ ProfileRead(p, idx)
               /\ uid \in DOMAIN users
               /\ "displayName" \in DOMAIN users[uid]
               /\ NonBlank(users[uid].displayName))
              => EntryOf(chatSub'.delivered,
                         passes[p].chats[idx].chatRoomId).otherUserName
                   = users[uid].displayName]_vars

\* B's list was delivered after a pass: the room stores the placeholder for
\* A, the entry shows the displayName of A's profile
C19_Witness ==
  /\ chatSub.pc = "listening"
  /\ chatSub.userId = "B"
  /\ chatSub.calls = 1
  /\ passes = <<>>
  /\ \E i \in DOMAIN chatSub.delivered :
       /\ Enriched(chatSub.delivered[i])
       /\ chatSub.delivered[i].otherUserId = "A"
       /\ chatSub.delivered[i].otherUserName = users["A"].displayName

\* the name an entry for counterpart uid ends with, given the lookups that
\* settled for it: a rejected lookup leaves the placeholder, a resolved
\* profile lookup gives the profile's name, and a resolved post lookup the
\* author name of the counterpart's latest post, if any
OwnName(uid, did) ==
  IF did[Len(did)].ok = FALSE THEN UnknownUser
  ELSE IF Len(did) = 1 THEN ResolvedName(users[uid])
  ELSE IF LatestPost(uid) # {}
          /\ Truthy(posts[CHOOSE id \in LatestPost(uid) : TRUE], "userName")
       THEN posts[CHOOSE id \in LatestPost(uid) : TRUE].userName
       ELSE UnknownUser

\* C20: the lookups of a pass are isolated from each other.  When a pass
\* ends, the lookups of every entry that needed enrichment have settled; an
\* entry whose lookup failed shows "Unknown User", and every other entry
\* shows the name its own lookups resolved, whatever happened to the
\* lookups of the others.  A failing lookup is not surfaced: the step in
\* which a lookup settles changes nothing the caller sees, and the pass
\* still ends with one invocation of the callback.
C20_LookupsIsolated ==
  [][/\ \A p \in DOMAIN passes :
          PassEnds(p) =>
            /\ chatSub'.calls = chatSub.calls + 1
            /\ chatSub'.pc = chatSub.pc
            /\ \A idx \in DOMAIN passes[p].todo :
                 /\ passes[p].did[idx] # <<>>
                 /\ EntryOf(chatSub'.delivered,
                            passes[p].chats[idx].chatRoomId).otherUserName
                      = OwnName(passes[p].chats[idx].otherUserId,
                                passes[p].did[idx])
     /\ (passes' # passes /\ Len(passes') = Len(passes)) => chatSub' = chatSub
     /\ faults' # faults =>
          \E c \in GocCalls : goc'[c].pc = "rejected" /\ goc[c].pc # "rejected"]_vars

\* a pass with two entries ended: the lookup of one had failed and it shows
\* the placeholder, the other shows the name that was resolved for it
C20_Witness ==
  /\ chatSub.pc = "listening"
  /\ chatSub.calls = 1
  /\ passes = <<>>
  /\ Len(chatSub.delivered) = 2
  /\ \E i \in DOMAIN chatSub.delivered, j \in DOMAIN chatSub.delivered :
       /\ NeedsEnrichment(chatSub.delivered[i])
       /\ Enriched(chatSub.delivered[j])

\* the numbers of the snapshots a listener receives: the first, and one for
\* each room a getOrCreateChatRoom call adds to the result of its query
SnapshotNumbers == 1..(MaxGoc + 1)

\* the enrichment pass of snapshot n is running
PassPending(n) == \E p \in DOMAIN passes : passes[p].snapshot = n

\* C21: for every snapshot the listener of subscribeToUserChats received, if
\* every enrichment lookup eventually settles (resolves or rejects), the
\* callback is eventually invoked with the list of that snapshot, even when
\* every lookup fails: a pass that is running always ends, and it ends with
\* the delivery of the list computed from its snapshot.
C21_PassDelivers ==
  \A n \in SnapshotNumbers :
    PassPending(n) ~> /\ ~PassPending(n)
                      /\ chatSub.pc # "none"
                      /\ chatSub.calls > 0
                      /\ chatSub.from = n

\* a pass was delivered although every lookup of it had failed: both entries
\* still need enrichment
C21_Witness ==
  /\ chatSub.pc = "listening"
  /\ chatSub.snapshots = 1
  /\ chatSub.calls = 1
  /\ chatSub.from = 1
  /\ passes = <<>>
  /\ Len(chatSub.delivered) = 2
  /\ \A i \in DOMAIN chatSub.delivered : NeedsEnrichment(chatSub.delivered[i])

\* C22: after the function subscribeToUserChats returned has been called,
\* the callback is never invoked again: no step taken with the listener
\* closed delivers a list, so a pass whose lookups were pending at that
\* moment ends without an invocation of the callback.
C22_NoCallbackAfterUnsubscribe ==
  [][chatSub.pc = "closed" =>
       /\ chatSub'.calls = chatSub.calls
       /\ chatSub'.delivered = chatSub.delivered]_vars

\* the callback is invoked in this step
Delivers == chatSub.pc # "none" /\ chatSub'.calls = chatSub.calls + 1

\* the room documents of the snapshot the list delivered in this step was
\* computed from: those of the pass that ends, or else those of the snapshot
\* the handler is running for
DeliveredDocs ==
  IF \E p \in DOMAIN passes : PassEnds(p)
  THEN passes[CHOOSE p \in DOMAIN passes : PassEnds(p)].docs
  ELSE QueryRooms(chatSub.userId)

\* docs are the rooms of the store whose participants contain userId, each
\* once
RoomsOf(docs, userId) ==
  /\ \A i \in DOMAIN docs, j \in DOMAIN docs : docs[i].id = docs[j].id => i = j
  /\ {docs[i].id : i \in DOMAIN docs}
       = {r \in DOMAIN rooms :
            \E k \in DOMAIN rooms[r].participants :
              rooms[r].participants[k] = userId}
  /\ \A i \in DOMAIN docs : docs[i].data = rooms[docs[i].id]

\* list has one entry for each of docs and no other, with the preview of
\* its room
EntriesOf(list, docs) ==
  /\ Len(list) = Len(docs)
  /\ \A i \in DOMAIN docs :
       \E j \in DOMAIN list :
         /\ list[j].chatRoomId = docs[i].id
         /\ \A k \in DOMAIN list : list[k].chatRoomId = docs[i].id => k = j
         /\ list[j].lastMessage = docs[i].data.lastMessage
         /\ HasTime(list[j]) <=> docs[i].data.lastMessageTime # Null
         /\ HasTime(list[j]) =>
              Stamp(list[j].lastMessageTime) = docs[i].data.lastMessageTime

\* the room of entry j of list among docs
DocOf(list, j, docs) ==
  docs[CHOOSE i \in DOMAIN docs : docs[i].id = list[j].chatRoomId].data

AsStored(stub, data, f) ==
  /\ f \in DOMAIN stub <=> f \in DOMAIN data
  /\ f \in DOMAIN stub => stub[f] = data[f]

\* C24: getAllUsers(X) returns one stub for every profile whose id is not X
\* and none for X, each with its uid, email and photoURL as stored, with
\* displayName absent whenever the stored displayName is missing, empty or
\* whitespace only and as stored otherwise; it returns an empty list when
\* there are no profiles, and it writes nothing.
C24_StubPerOtherUser ==
  [][\A c \in GauCalls :
       (gau[c].pc = "idle" /\ gau'[c].pc = "resolved") =>
         LET X == gau'[c].currentUserId
             result == gau'[c].result
         IN /\ \A u \in DOMAIN users \ {X} :
                 \E i \in DOMAIN result :
                   /\ result[i].uid = u
                   /\ \A j \in DOMAIN result : result[j].uid = u => j = i
            /\ \A i \in DOMAIN result :
                 LET u == result[i].uid
                 IN /\ u \in DOMAIN users \ {X}
                    /\ AsStored(result[i], users[u], "email")
                    /\ AsStored(result[i], users[u], "photoURL")
                    /\ IF "displayName" \in DOMAIN users[u]
                          /\ NonBlank(users[u].displayName)
                       THEN /\ "displayName" \in DOMAIN result[i]
                            /\ result[i].displayName = users[u].displayName
                       ELSE "displayName" \notin DOMAIN result[i]
            /\ DOMAIN users = {} => result = <<>>
            /\ UNCHANGED <<rooms, messages, users, posts>>]_vars

\* a call for a user without a profile returned two stubs, one with its
\* displayName, one without because the stored displayName is blank or empty
C24_Witness ==
  \E c \in GauCalls :
    /\ gau[c].pc = "resolved"
    /\ gau[c].currentUserId \notin DOMAIN users
    /\ Len(gau[c].result) = 2
    /\ \E i \in DOMAIN gau[c].result, j \in DOMAIN gau[c].result :
         /\ "displayName" \in DOMAIN gau[c].result[i]
         /\ "displayName" \notin DOMAIN gau[c].result[j]
         /\ "displayName" \in DOMAIN users[gau[c].result[j].uid]

\* the store operations of getOrCreateChatRoom calls rejected in this step
GocFaults == {f \in faults' \ faults : f[1] = "getOrCreateChatRoom"}

\* C25: if the room query of getOrCreateChatRoom fails, the call rejects
\* with that error and creates no room; if the create write fails, the call
\* rejects and the store holds no room created by that call; in neither case
\* does the function retry: a rejected call takes no further step, and only
\* a call whose create write resolves adds a room.
C25_GocErrorsPropagate ==
  [][/\ \A f \in GocFaults :
          /\ goc[f[2]].pc = IF f[3] = "getDocs" THEN "idle" ELSE "addDoc"
          /\ goc'[f[2]].pc = "rejected"
          /\ goc'[f[2]].error = f[3]
          /\ rooms' = rooms
     /\ \A c \in GocCalls :
          /\ goc[c].pc = "rejected" => goc'[c] = goc[c]
          /\ (goc[c].pc # "rejected" /\ goc'[c].pc = "rejected") =>
               \E f \in GocFaults : f[2] = c
     /\ DOMAIN rooms' # DOMAIN rooms =>
          \E c \in GocCalls :
            /\ goc[c].pc = "addDoc"
            /\ goc'[c].pc = "resolved"
            /\ DOMAIN rooms' = DOMAIN rooms \cup {goc'[c].result}]_vars

\* one call was rejected by its query and another by its create write, and
\* the store holds no room
C25_Witness ==
  /\ rooms = <<>>
  /\ \E c \in GocCalls, d \in GocCalls :
       /\ goc[c].pc = "rejected" /\ goc[c].error = "getDocs"
       /\ goc[d].pc = "rejected" /\ goc[d].error = "addDoc"

\* the profile has a name the enrichment accepts: a displayName that is not
\* blank, or else a userName, a name or an email that is not empty
UsableName(data) ==
  \/ "displayName" \in DOMAIN data /\ NonBlank(data.displayName)
  \/ Truthy(data, "userName")
  \/ Truthy(data, "name")
  \/ Truthy(data, "email")

\* the name of a profile by the precedence displayName, userName, name, email
ProfileName(data) ==
  IF "displayName" \in DOMAIN data /\ NonBlank(data.displayName)
  THEN data.displayName
  ELSE IF Truthy(data, "userName") THEN data.userName
  ELSE IF Truthy(data, "name") THEN data.name
  ELSE data.email

\* the profile lookup of entry idx of pass p settles in this step
ProfileSettles(p, idx) ==
  /\ Len(passes') = Len(passes)
  /\ passes[p].did[idx] = <<>>
  /\ passes'[p].did[idx] # <<>>

\* C26: for each entry needing enrichment the lookups run in the order
\* profile, then post.  The post lookup is attempted exactly when the profile
\* step left the name unresolved (profile document missing, no usable name
\* field, or the profile lookup itself failing) and is not attempted when the
\* profile yielded a name.  The resulting name follows the precedence
\* non-blank profile displayName, alternate profile name fields, profile
\* email, author name of the latest post, and otherwise the placeholder.
C26_ProfileThenPost ==
  [][\A p \in DOMAIN passes :
       \A idx \in DOMAIN passes[p].todo :
         LET uid == passes[p].chats[idx].otherUserId
             did == passes[p].did[idx]
         IN /\ passes[p].todo[idx] = "getDoc" <=> did = <<>>
            /\ ProfileSettles(p, idx) =>
                 LET unresolved ==
                       \/ ~passes'[p].did[idx][1].ok
                       \/ uid \notin DOMAIN users
                       \/ ~UsableName(users[uid])
                 IN /\ passes'[p].did[idx][1].op = "getDoc"
                    /\ passes'[p].todo[idx] =
                         IF unresolved THEN "getDocs" ELSE "done"
            /\ (PassEnds(p) /\ \A k \in DOMAIN did : did[k].ok) =>
                 EntryOf(chatSub'.delivered,
                         passes[p].chats[idx].chatRoomId).otherUserName
                   = IF uid \in DOMAIN users /\ UsableName(users[uid])
                     THEN ProfileName(users[uid])
                     ELSE IF /\ LatestPost(uid) # {}
                             /\ Truthy(posts[CHOOSE id \in LatestPost(uid) : TRUE],
                                       "userName")
                          THEN posts[CHOOSE id \in LatestPost(uid) : TRUE].userName
                          ELSE UnknownUser]_vars

\* C27: lists are delivered to the callback of subscribeToUserChats in the
\* order of the snapshots they were computed from: once a list computed from
\* snapshot n has been delivered, no list computed from an earlier snapshot
\* is delivered afterwards, so the last delivered list is that of the latest
\* snapshot that was delivered.
C27_DeliveredInSnapshotOrder ==
  [][(chatSub.pc # "none" /\ chatSub'.calls > chatSub.calls)
       => chatSub'.from > chatSub.from]_vars

\* C28: the id returned by getOrCreateChatRoom(A, B, ...) always identifies a
\* room whose participant set is exactly {A, B}, for all A and B, including
\* A = B when A already has rooms with other users.
C28_ReturnedRoomIsOfPair ==
  \A c \in GocCalls :
    goc[c].pc = "resolved" =>
      /\ goc[c].result \in DOMAIN rooms
      /\ PairOf(rooms[goc[c].result]) = {goc[c].userId1, goc[c].userId2}

\* C29: if sendMessage rejects, that call appended no message document: a
\* rejected send leaves the messages collection as it was before the call.
\* Every stored message was then appended by a call that has not rejected,
\* so there are at most as many messages as such calls.
C29_RejectedSendStoresNothing ==
  Cardinality(DOMAIN messages)
    <= Cardinality({c \in SendCalls : snd[c].pc \in {"updateDoc", "resolved"}})

\* the names the lookups can resolve for user uid: the name fields of the
\* profile document and the author names of the user's posts
NamesOf(uid) ==
  (IF uid \in DOMAIN users
   THEN {users[uid][f] : f \in DOMAIN users[uid]
                           \cap {"displayName", "userName", "name", "email"}}
   ELSE {})
  \cup {posts[i].userName :
          i \in {k \in DOMAIN posts :
                   posts[k].userId = uid /\ "userName" \in DOMAIN posts[k]}}

\* entry after is entry before with nothing changed but, for an entry that
\* needed enrichment, the name (to one resolved for its own counterpart) and
\* the photo (to that of the counterpart's profile)
OnlyEnriched(before, after) ==
  IF ~NeedsEnrichment(before) THEN after = before
  ELSE /\ DOMAIN after \ {"otherUserPhoto"} = DOMAIN before \ {"otherUserPhoto"}
       /\ \A f \in DOMAIN before \ {"otherUserName", "otherUserPhoto"} :
            after[f] = before[f]
       /\ after.otherUserName \in {UnknownUser} \cup NamesOf(before.otherUserId)
       /\ \/ /\ "otherUserPhoto" \in DOMAIN after <=> "otherUserPhoto" \in DOMAIN before
             /\ "otherUserPhoto" \in DOMAIN after =>
                  after.otherUserPhoto = before.otherUserPhoto
          \/ /\ "otherUserPhoto" \in DOMAIN after
             /\ before.otherUserId \in DOMAIN users
             /\ "photoURL" \in DOMAIN users[before.otherUserId]
             /\ after.otherUserPhoto = users[before.otherUserId].photoURL

\* C30: the enrichment pass changes only otherUserName and otherUserPhoto of
\* entries whose name was the placeholder, and the name written to an entry
\* is one resolved from that entry's own otherUserId; entries with a
\* resolved name, and every entry's chatRoomId, otherUserId, lastMessage and
\* lastMessageTime, are the same before and after enrichment, the set of
\* entries is unchanged, and no store document is written.
C30_EnrichmentFrame ==
  [][/\ \A p \in DOMAIN passes :
          LET before == [i \in DOMAIN passes[p].docs |->
                           ToUserChat(passes[p].docs[i], chatSub.userId)]
          IN /\ DOMAIN passes[p].chats = DOMAIN before
             /\ \A i \in DOMAIN before :
                  OnlyEnriched(before[i], passes[p].chats[i])
             /\ PassEnds(p) =>
                  /\ Len(chatSub'.delivered) = Len(before)
                  /\ \A i \in DOMAIN before :
                       \E j \in DOMAIN chatSub'.delivered :
                         /\ chatSub'.delivered[j] = passes[p].chats[i]
                         /\ OnlyEnriched(before[i], chatSub'.delivered[j])
     /\ (passes' # passes \/ chatSub' # chatSub) =>
          UNCHANGED <<rooms, messages, users, posts>>]_vars

\* a pass over two entries for different counterparts ended: B's entry was
\* given the name of B's post and the photo of B's profile, the entry of C,
\* who has neither profile nor post, is as its room has it
C30_Witness ==
  /\ chatSub.pc = "listening"
  /\ chatSub.calls = 1
  /\ passes = <<>>
  /\ Len(chatSub.delivered) = 2
  /\ \E i \in DOMAIN chatSub.delivered, j \in DOMAIN chatSub.delivered :
       /\ chatSub.delivered[i].otherUserId = "B"
       /\ Enriched(chatSub.delivered[i])
       /\ chatSub.delivered[i].otherUserPhoto = PhotoP
       /\ rooms[chatSub.delivered[i].chatRoomId]
            .participantDetails["B"].photoURL = EmptyStr
       /\ chatSub.delivered[j].otherUserId = "C"
       /\ NeedsEnrichment(chatSub.delivered[j])
       /\ chatSub.delivered[j].otherUserPhoto = EmptyStr

====
